---- MODULE Spec2Model ----
(***************************************************************************)
(* Model of libavfilter/vf_stack_qsv.c: the hstack_qsv / vstack_qsv        *)
(* filters.  One filter instance is modelled through its lifecycle hooks   *)
(* (init, config_output, activate -> process_frame -> filter_callback,     *)
(* uninit).  The frame synchronizer, the QSV VPP session and the host      *)
(* allocator are external: their return values and the values they leave   *)
(* behind (fs.pts, fs.time_base, produced frames) are drawn from small     *)
(* sets.  Input i of the C code (0-based) is element i+1 of the sequences. *)
(***************************************************************************)
EXTENDS Integers, Sequences, FiniteSets, TLC

VARIABLES
    filter_name,   \* ctx->filter->name
    nb_inputs,     \* QSVStackContext.nb_inputs (option "inputs")
    shortest,      \* QSVStackContext.shortest  (option "shortest")
    is_horizontal, \* QSVStackContext.is_horizontal
    inlinks,       \* ctx->inputs[i]: w, h, format, device_ctx, time_base, frame_rate
    comp_conf,     \* QSVStackContext.comp_conf.InputStream[i]
    outlink,       \* ctx->outputs[0]: w, h, frame_rate, time_base, dims_src
    fs,            \* QSVStackContext.fs (FFFrameSync)
    qsv,           \* QSVStackContext.qsv (QSVVPPContext): session, got_frame
    phase,         \* lifecycle position of the filter instance
    cfg,           \* result of the last hook: return value and place of return
    ev             \* trace of the last synchronizer event (process_frame)

vars == <<filter_name, nb_inputs, shortest, is_horizontal, inlinks, comp_conf,
          outlink, fs, qsv, phase, cfg, ev>>

(* ------------------------------ bounds --------------------------------- *)
MaxInputs == 3
MaxSyncInputs == 2
MaxDim == 2

(* ------------------------- program constants --------------------------- *)
MinInputs == 2
EINVAL == 22
ENOMEM == 12
EAGAIN == 11
EIO == 5
AVERROR(e) == 0 - e
\* FFERRTAG('N','R','D','Y') = -MKTAG('N','R','D','Y')
FFERROR_NOT_READY == 0 - (78 + 82 * 256 + 68 * 65536 + 89 * 16777216)

AV_PIX_FMT_NV12 == "NV12"
AV_PIX_FMT_QSV == "QSV"
EXT_STOP == "EXT_STOP"
EXT_INFINITY == "EXT_INFINITY"

Q(n, d) == [num |-> n, den |-> d]
av_inv_q(q) == [num |-> q.den, den |-> q.num]

\* av_rescale_q(a, bq, cq): a * bq / cq rounded to nearest, halfway cases
\* away from zero (AV_ROUND_NEAR_INF).
av_rescale_q(a, bq, cq) ==
    LET b == bq.num * cq.den
        c == cq.num * bq.den
        r(x) == (x * b + c \div 2) \div c
    IN  IF a < 0 THEN 0 - r(0 - a) ELSE r(a)

(* ------------------------ environment domains -------------------------- *)
Devices == {"dev0", "dev1"}
NoDevice == "none"
SyncTimeBases == {Q(1, 90), Q(1, 1000)}
PtsValues == {-45, 7}
VppPtsValues == {0, 99}
Indeterminate == {0, 1}

Link(w, h, fd, tb, fr) ==
    [w |-> w, h |-> h, format |-> fd.format, device_ctx |-> fd.device_ctx,
     time_base |-> tb, frame_rate |-> fr]

ZeroStream ==
    [DstX |-> 0, DstY |-> 0, DstW |-> 0, DstH |-> 0,
     GlobalAlpha |-> 0, GlobalAlphaEnable |-> 0, PixelAlphaEnable |-> 0]

NoEvent ==
    [ret |-> 0, in_ret |-> <<>>, fetched |-> <<>>, submitted |-> <<>>,
     wanted |-> <<>>, delivered |-> <<>>, fired |-> FALSE]

(* ------------------------------- Init ---------------------------------- *)
\* State after the host allocated the zeroed private context, applied the
\* options of stack_qsv_options and linked the inputs.
InitWith(names, maxn, shorts, links) ==
    /\ filter_name \in names
    /\ nb_inputs \in MinInputs..maxn
    /\ shortest \in shorts
    /\ is_horizontal = 0
    /\ inlinks \in UNION {[1..n -> links] : n \in MinInputs..maxn}
    /\ Len(inlinks) = nb_inputs
    /\ comp_conf = <<>>
    /\ outlink = [w |-> 0, h |-> 0, frame_rate |-> Q(0, 0), time_base |-> Q(0, 0),
                  dims_src |-> "unset"]
    /\ fs = [inited |-> FALSE, configured |-> FALSE, in |-> <<>>,
             pts |-> 0, time_base |-> Q(0, 0), on_event |-> "none"]
    /\ qsv = [session |-> FALSE, got_frame |-> 0, filter_frame |-> "none"]
    /\ phase = "new"
    /\ cfg = [ret |-> 0, at |-> "none"]
    /\ ev = NoEvent

\* Frame path: software inputs of one size, with differing time bases and
\* frame rates, stacked horizontally.
SyncLinks ==
    {Link(1, 1, [format |-> AV_PIX_FMT_NV12, device_ctx |-> NoDevice], p[1], p[2]) :
        p \in {<<Q(1, 25), Q(25, 1)>>, <<Q(1, 90), Q(30, 1)>>}}

Init == InitWith({"hstack_qsv"}, MaxSyncInputs, {0, 1}, SyncLinks)

\* Setup path: both filters; software inputs of every size, hardware inputs
\* of every height on either device.
Heights == {1, 2}

ConfigLinks ==
    {Link(w, h, [format |-> AV_PIX_FMT_NV12, device_ctx |-> NoDevice],
          Q(1, 25), Q(25, 1)) : w \in 1..MaxDim, h \in Heights}
    \cup {Link(1, h, [format |-> AV_PIX_FMT_QSV, device_ctx |-> d],
                Q(1, 25), Q(25, 1)) : h \in Heights, d \in Devices}

InitConfig ==
    InitWith({"hstack_qsv", "vstack_qsv"}, MaxInputs, {0}, ConfigLinks)

(* -------------------------- stack_qsv_init ----------------------------- *)
AllocSites == {"none", "frames", "items", "pad", "InputStream", "ext_buf"}

stack_qsv_init ==
    /\ phase = "new"
    /\ \E fail \in AllocSites :
         /\ is_horizontal' = IF filter_name = "hstack_qsv" THEN 1 ELSE 0
         /\ comp_conf' = IF fail \in {"none", "ext_buf"}
                         THEN [i \in 1..nb_inputs |-> ZeroStream]
                         ELSE comp_conf
         /\ qsv' = IF fail \in {"none", "ext_buf"}
                   THEN [qsv EXCEPT !.filter_frame = "filter_callback"]
                   ELSE qsv
         /\ phase' = IF fail = "none" THEN "inited" ELSE "failed"
         /\ cfg' = [ret |-> IF fail = "none" THEN 0 ELSE AVERROR(ENOMEM),
                    at |-> "init"]
    /\ UNCHANGED <<filter_name, nb_inputs, shortest, inlinks, outlink, fs, ev>>

(* --------------------------- init_framesync ---------------------------- *)
\* Variant: the 'shortest' test inverted.
FsInFlagsInverted(i, short, inlink) ==
    [before |-> EXT_STOP,
     after |-> IF short # 0 THEN EXT_INFINITY ELSE EXT_STOP,
     sync |-> IF i # 0 THEN 1 ELSE 2,
     time_base |-> inlink.time_base]

\* Loop body of init_framesync for input i (C index).
FsInFlags(i, short, inlink) ==
    [before |-> EXT_STOP,
     after |-> IF short # 0 THEN EXT_STOP ELSE EXT_INFINITY,
     sync |-> IF i # 0 THEN 1 ELSE 2,
     time_base |-> inlink.time_base]

\* init_framesync: fsinit_ret / fscfg_ret are the results of
\* ff_framesync_init / ff_framesync_configure, stb the time base the
\* synchronizer derives for itself.
init_framesync(f, n, short, links, fsinit_ret, fscfg_ret, stb) ==
    LET f1 == [f EXCEPT !.on_event = "process_frame"]
    IN  IF fsinit_ret < 0
        THEN [ret |-> fsinit_ret, fs |-> f1]
        ELSE LET f2 == [f1 EXCEPT !.inited = TRUE,
                                  !.in = [i \in 1..n |->
                                             FsInFlags(i - 1, short, links[i])]]
             IN  IF fscfg_ret < 0
                 THEN [ret |-> fscfg_ret, fs |-> f2]
                 ELSE [ret |-> 0,
                       fs |-> [f2 EXCEPT !.configured = TRUE, !.time_base = stb]]

(* ---------------------------- config_output ---------------------------- *)
\* if (inlink0->format == AV_PIX_FMT_QSV) if (inlink0->format != inlink->format)
FormatMismatch(inlink0, inlink) ==
    /\ inlink0.format = AV_PIX_FMT_QSV
    /\ inlink0.format # inlink.format

\* Variant: the device comparison dropped.
DeviceMismatchNever(inlink0, inlink) == FALSE

\* else branch: hwfc0->device_ctx != hwfc->device_ctx
DeviceMismatch(inlink0, inlink) ==
    /\ inlink0.format = AV_PIX_FMT_QSV
    /\ inlink0.format = inlink.format
    /\ inlink0.device_ctx # inlink.device_ctx

\* Validation loop, for (i = 1; i < nb_inputs; i++): where it returns.
RECURSIVE ValidateInputs(_, _, _)
ValidateInputs(links, n, i) ==
    IF i >= n THEN "ok"
    ELSE IF FormatMismatch(links[1], links[i + 1]) THEN "format"
    ELSE IF DeviceMismatch(links[1], links[i + 1]) THEN "device"
    ELSE ValidateInputs(links, n, i + 1)

\* Variant: the height comparison dropped.
HeightMismatchNever(inlink0, inlink) == FALSE

\* if (inlink0->h != inlink->h)
HeightMismatch(inlink0, inlink) == inlink0.h # inlink.h

\* Variant: the running offset not used for DstX.
HStreamNoOffset(width, inlink) ==
    [DstX |-> 0, DstY |-> 0, DstW |-> inlink.w, DstH |-> inlink.h,
     GlobalAlpha |-> 255, GlobalAlphaEnable |-> 1, PixelAlphaEnable |-> 0]

\* The stream parameters written for one input of the horizontal layout.
HStream(width, inlink) ==
    [DstX |-> width, DstY |-> 0, DstW |-> inlink.w, DstH |-> inlink.h,
     GlobalAlpha |-> 255, GlobalAlphaEnable |-> 1, PixelAlphaEnable |-> 0]

\* Horizontal layout loop, for (i = 0; i < nb_inputs; i++).
RECURSIVE HLayout(_, _, _, _, _)
HLayout(links, n, i, width, comp) ==
    IF i >= n THEN [ret |-> 0, width |-> width, comp |-> comp]
    ELSE IF HeightMismatch(links[1], links[i + 1])
    THEN [ret |-> AVERROR(EINVAL), width |-> width, comp |-> comp]
    ELSE HLayout(links, n, i + 1, width + links[i + 1].w,
                 [comp EXCEPT ![i + 1] = HStream(width, links[i + 1])])

\* outlink->w/h/frame_rate/time_base assignments after the layout step.
\* width and height are locals that only the horizontal branch assigns; in
\* the other branch they are read uninitialized (gw, gh: whatever the build
\* left there).
SetOutlink(out, horiz, inlink0, width, gw, gh) ==
    [w |-> IF horiz # 0 THEN width ELSE gw,
     h |-> IF horiz # 0 THEN inlink0.h ELSE gh,
     frame_rate |-> inlink0.frame_rate,
     time_base |-> av_inv_q(inlink0.frame_rate),
     dims_src |-> IF horiz # 0 THEN "inputs" ELSE "indeterminate"]

config_output ==
    /\ phase = "inited"
    /\ \E fsinit_ret \in {0, AVERROR(ENOMEM)}, fscfg_ret \in {0, AVERROR(EINVAL)},
          vpp_ret \in {0, AVERROR(EIO)}, stb \in SyncTimeBases,
          gw \in Indeterminate, gh \in Indeterminate :
         LET v == ValidateInputs(inlinks, nb_inputs, 1)
             lay == IF is_horizontal # 0
                    THEN HLayout(inlinks, nb_inputs, 0, 0, comp_conf)
                    ELSE [ret |-> 0, width |-> 0, comp |-> comp_conf]
             fsr == init_framesync(fs, nb_inputs, shortest, inlinks,
                                   fsinit_ret, fscfg_ret, stb)
         IN  IF v # "ok"
             THEN /\ cfg' = [ret |-> AVERROR(EINVAL), at |-> v]
                  /\ phase' = "failed"
                  /\ UNCHANGED <<comp_conf, outlink, fs, qsv>>
             ELSE IF lay.ret < 0
             THEN /\ cfg' = [ret |-> lay.ret, at |-> "layout"]
                  /\ comp_conf' = lay.comp
                  /\ phase' = "failed"
                  /\ UNCHANGED <<outlink, fs, qsv>>
             ELSE /\ comp_conf' = lay.comp
                  /\ outlink' = SetOutlink(outlink, is_horizontal, inlinks[1],
                                           lay.width, gw, gh)
                  /\ fs' = fsr.fs
                  /\ IF fsr.ret < 0
                     THEN /\ cfg' = [ret |-> fsr.ret, at |-> "framesync"]
                          /\ phase' = "failed"
                          /\ qsv' = qsv
                     ELSE /\ cfg' = [ret |-> vpp_ret,
                                     at |-> IF vpp_ret < 0 THEN "qsvvpp" ELSE "done"]
                          /\ phase' = IF vpp_ret < 0 THEN "failed" ELSE "configured"
                          /\ qsv' = [qsv EXCEPT !.session = (vpp_ret = 0)]
    /\ UNCHANGED <<filter_name, nb_inputs, shortest, is_horizontal, inlinks, ev>>

(* ---------------------- process_frame / activation --------------------- *)
\* What the collaborators answer for one input during one event: the result
\* of ff_framesync_get_frame, the result of ff_qsvvpp_filter_frame, and
\* whether the VPP completed an output frame during that submission (it then
\* calls qsv_param.filter_frame and sets got_frame).
Outcomes ==
    {[get |-> 0, filt |-> 0, out |-> FALSE],
     [get |-> 0, filt |-> 0, out |-> TRUE],
     [get |-> 0, filt |-> AVERROR(EAGAIN), out |-> FALSE],
     [get |-> 0, filt |-> AVERROR(EIO), out |-> FALSE],
     [get |-> AVERROR(ENOMEM), filt |-> 0, out |-> FALSE]}

\* Variant: EAGAIN not exempted from the break.
StopsWalkAnyNegative(ret) == ret < 0

\* if (ret < 0 && ret != AVERROR(EAGAIN)) break;
StopsWalk(ret) == ret < 0 /\ ret # AVERROR(EAGAIN)

\* Variant: the frame forwarded with the pts the compositor left.
filter_callback_keep(f, out, frame) == frame

\* filter_callback: stamps the composed frame; ff_filter_frame then forwards
\* the returned frame downstream.
filter_callback(f, out, frame) ==
    [frame EXCEPT !.pts = av_rescale_q(f.pts, f.time_base, out.time_base)]

\* Loop of process_frame, for (i = 0; i < ctx->nb_inputs; i++).
RECURSIVE FrameLoop(_, _, _, _, _)
FrameLoop(oc, n, i, st, frame) ==
    IF i >= n THEN st
    ELSE LET o == oc[i + 1]
             sub == o.get = 0
             ret == IF sub THEN o.filt ELSE o.get
             st1 == [ret |-> ret,
                     in_ret |-> Append(st.in_ret, ret),
                     fetched |-> Append(st.fetched, i),
                     submitted |-> IF sub THEN Append(st.submitted, i)
                                   ELSE st.submitted,
                     delivered |-> IF sub /\ o.out
                                   THEN Append(st.delivered, frame)
                                   ELSE st.delivered,
                     got_frame |-> IF sub /\ o.out THEN 1 ELSE st.got_frame]
         IN  IF StopsWalk(ret) THEN st1
             ELSE FrameLoop(oc, n, i + 1, st1, frame)

\* FF_FILTER_FORWARD_WANTED(ctx->outputs[0], ctx->inputs[i]) for every input:
\* the inputs the output's frame-wanted status is forwarded to.
ForwardWanted(n) == [i \in 1..n |-> i - 1]

\* process_frame: the loop, then the not-ready test.
process_frame(oc, n, got, frame) ==
    LET st == FrameLoop(oc, n, 0,
                        [ret |-> 0, in_ret |-> <<>>, fetched |-> <<>>,
                         submitted |-> <<>>, delivered |-> <<>>,
                         got_frame |-> got], frame)
        notready == st.ret = 0 /\ st.got_frame = 0
    IN  [ret |-> IF notready THEN FFERROR_NOT_READY ELSE st.ret,
         in_ret |-> st.in_ret,
         fetched |-> st.fetched,
         submitted |-> st.submitted,
         wanted |-> IF notready THEN ForwardWanted(n) ELSE <<>>,
         delivered |-> st.delivered,
         got_frame |-> st.got_frame]

\* stack_qsv_activate -> ff_framesync_activate; the synchronizer has aligned
\* the inputs at time pts and calls fs.on_event.
stack_qsv_activate ==
    /\ phase = "configured"
    /\ \E pts \in PtsValues, vpp_pts \in VppPtsValues,
          oc \in [1..nb_inputs -> Outcomes] :
         LET fs1 == [fs EXCEPT !.pts = pts]
             frame == filter_callback(fs1, outlink,
                                      [pts |-> vpp_pts, vpp_pts |-> vpp_pts])
         IN  \E r \in {process_frame(oc, nb_inputs, qsv.got_frame, frame)} :
             /\ fs' = fs1
             /\ qsv' = [qsv EXCEPT !.got_frame = r.got_frame]
             /\ ev' = [ret |-> r.ret, in_ret |-> r.in_ret, fetched |-> r.fetched,
                       submitted |-> r.submitted, wanted |-> r.wanted,
                       delivered |-> r.delivered, fired |-> TRUE]
    /\ UNCHANGED <<filter_name, nb_inputs, shortest, is_horizontal, inlinks,
                   comp_conf, outlink, phase, cfg>>

(* --------------------------- stack_qsv_uninit -------------------------- *)
stack_qsv_uninit ==
    /\ phase # "closed"
    /\ phase' = "closed"
    /\ qsv' = [qsv EXCEPT !.session = FALSE]
    /\ fs' = [fs EXCEPT !.inited = FALSE, !.configured = FALSE, !.in = <<>>]
    /\ comp_conf' = <<>>
    /\ UNCHANGED <<filter_name, nb_inputs, shortest, is_horizontal, inlinks,
                   outlink, cfg, ev>>

(* --------------------------- specifications ---------------------------- *)
Next ==
    \/ stack_qsv_init
    \/ config_output
    \/ stack_qsv_activate
    \/ stack_qsv_uninit

Spec == Init /\ [][Next]_vars

\* Setup only (init, output configuration, teardown) over the full range of
\* input geometries and formats.
NextConfig ==
    \/ stack_qsv_init
    \/ config_output
    \/ stack_qsv_uninit

SpecConfig == InitConfig /\ [][NextConfig]_vars

(* ============================== properties ============================= *)
RECURSIVE SumW(_, _)
SumW(links, k) == IF k = 0 THEN 0 ELSE SumW(links, k - 1) + links[k].w

RECURSIVE SumH(_, _)
SumH(links, k) == IF k = 0 THEN 0 ELSE SumH(links, k - 1) + links[k].h

Inputs == 1..nb_inputs
\* config_output has run and got past the format/device validation
ReachedLayout == cfg.at \in {"layout", "framesync", "qsvvpp", "done"}
\* config_output has run
ConfigRan == cfg.at \in {"format", "device", "layout", "framesync", "qsvvpp", "done"}
EqualHeights == \A i \in Inputs : inlinks[i].h = inlinks[1].h
EqualWidths == \A i \in Inputs : inlinks[i].w = inlinks[1].w
Abs(x) == IF x < 0 THEN 0 - x ELSE x

\* C1: hstack_qsv, all inputs of one height H: once config_output reaches its
\* layout step the step does not fail, and input i gets DstX = sum of the
\* widths of inputs 0..i-1, DstY = 0, DstW = its width, DstH = H.
C1_HorizontalRects ==
    (is_horizontal = 1 /\ ReachedLayout /\ phase # "closed" /\ EqualHeights)
        => /\ cfg.at # "layout"
           /\ \A i \in Inputs :
                /\ comp_conf[i].DstX = SumW(inlinks, i - 1)
                /\ comp_conf[i].DstY = 0
                /\ comp_conf[i].DstW = inlinks[i].w
                /\ comp_conf[i].DstH = inlinks[1].h

C1_Witness ==
    /\ is_horizontal = 1 /\ cfg.at = "done" /\ phase = "configured"
    /\ nb_inputs = 3 /\ EqualHeights
    /\ inlinks[1].w = 2 /\ inlinks[2].w = 1
    /\ comp_conf[2].DstX = 2 /\ comp_conf[3].DstX = 3

\* C2: any mix of hardware (QSV) and software (NV12) inputs, whichever index
\* holds which, makes config_output return AVERROR(EINVAL).
C2_MixedFormatsRejected ==
    (/\ ConfigRan
     /\ \E i \in Inputs : inlinks[i].format = AV_PIX_FMT_QSV
     /\ \E j \in Inputs : inlinks[j].format = AV_PIX_FMT_NV12)
        => cfg.ret = AVERROR(EINVAL)

\* C3: vstack_qsv: with equal widths input i gets DstY = sum of the heights
\* of inputs 0..i-1, DstX = 0 and its own size; with a width differing from
\* input 0's, config_output returns a configuration error.
C3_VerticalLayout ==
    (is_horizontal = 0 /\ ReachedLayout /\ phase # "closed")
        => IF EqualWidths
           THEN \A i \in Inputs :
                  /\ comp_conf[i].DstY = SumH(inlinks, i - 1)
                  /\ comp_conf[i].DstX = 0
                  /\ comp_conf[i].DstW = inlinks[i].w
                  /\ comp_conf[i].DstH = inlinks[i].h
           ELSE cfg.ret = AVERROR(EINVAL) /\ cfg.at = "layout"

\* C4: hstack_qsv with some input height differing from input 0's:
\* config_output returns AVERROR(EINVAL) without having initialized the
\* frame synchronizer or the VPP session and without having set the output
\* link's dimensions.
C4_HeightMismatchRejected ==
    (is_horizontal = 1 /\ ConfigRan /\ ~EqualHeights)
        => /\ cfg.ret = AVERROR(EINVAL)
           /\ cfg.at \in {"format", "device", "layout"}
           /\ ~fs.inited /\ ~fs.configured /\ fs.on_event = "none"
           /\ ~qsv.session
           /\ outlink.dims_src = "unset" /\ outlink.w = 0 /\ outlink.h = 0

C4_Witness ==
    /\ is_horizontal = 1 /\ cfg.at = "layout" /\ nb_inputs = 3
    /\ inlinks[1].h = 1 /\ inlinks[2].h = 1 /\ inlinks[3].h = 2

\* C5: every frame the callback forwards downstream carries the
\* synchronizer's pts rescaled (to nearest) from fs.time_base to the output
\* link's time base, whatever pts the compositor had left on it.
C5_OutputPts ==
    ev.fired =>
        \A k \in 1..Len(ev.delivered) :
            LET b == fs.time_base.num * outlink.time_base.den
                c == outlink.time_base.num * fs.time_base.den
            IN  /\ c > 0
                /\ 2 * Abs(ev.delivered[k].pts * c - fs.pts * b) <= c

C5_Witness ==
    /\ ev.fired /\ Len(ev.delivered) > 0
    /\ fs.pts = -45 /\ fs.time_base = Q(1, 90) /\ outlink.time_base = Q(1, 25)
    /\ ev.delivered[1].pts = -13
    /\ ev.delivered[1].vpp_pts = 99

\* C6: after a successful configuration, in either layout, the destination
\* rectangles of two distinct inputs share no pixel and each rectangle has
\* exactly its input's width and height.
C6_RectsDisjointExact ==
    phase = "configured" =>
        /\ \A i \in Inputs :
             comp_conf[i].DstW = inlinks[i].w /\ comp_conf[i].DstH = inlinks[i].h
        /\ \A i, j \in Inputs :
             i # j =>
                \/ comp_conf[i].DstX + comp_conf[i].DstW <= comp_conf[j].DstX
                \/ comp_conf[j].DstX + comp_conf[j].DstW <= comp_conf[i].DstX
                \/ comp_conf[i].DstY + comp_conf[i].DstH <= comp_conf[j].DstY
                \/ comp_conf[j].DstY + comp_conf[j].DstH <= comp_conf[i].DstY

\* C7: all inputs hardware-resident and some input's device context differs
\* from input 0's: config_output returns AVERROR(EINVAL) and neither the
\* frame synchronizer nor the VPP session is initialized.
C7_DeviceMismatchRejected ==
    (/\ ConfigRan
     /\ \A i \in Inputs : inlinks[i].format = AV_PIX_FMT_QSV
     /\ \E i \in Inputs : inlinks[i].device_ctx # inlinks[1].device_ctx)
        => /\ cfg.ret = AVERROR(EINVAL)
           /\ cfg.at = "device"
           /\ ~fs.inited /\ ~fs.configured /\ fs.on_event = "none"
           /\ ~qsv.session

C7_Witness ==
    /\ cfg.at = "device" /\ nb_inputs = 3
    /\ \A i \in Inputs : inlinks[i].format = AV_PIX_FMT_QSV
    /\ inlinks[2].device_ctx = inlinks[1].device_ctx
    /\ inlinks[3].device_ctx # inlinks[1].device_ctx

\* C8: once init_framesync has set them, input i's flags are before = stop,
\* after = stop if 'shortest' else infinity, sync = 2 for input 0 and 1 for
\* the others, time base = its link's; nothing changes them until teardown.
C8_FlagsValue ==
    fs.inited =>
        /\ Len(fs.in) = nb_inputs
        /\ \A i \in Inputs :
             /\ fs.in[i].before = "EXT_STOP"
             /\ fs.in[i].after = (IF shortest = 1 THEN "EXT_STOP" ELSE "EXT_INFINITY")
             /\ fs.in[i].sync = (IF i = 1 THEN 2 ELSE 1)
             /\ fs.in[i].time_base = inlinks[i].time_base

C8_SyncFlags ==
    /\ []C8_FlagsValue
    /\ [][(fs.inited /\ phase' # "closed") => fs'.in = fs.in]_vars

C8_Witness ==
    /\ fs.inited /\ ev.fired /\ shortest = 0
    /\ fs.in[1].sync = 2 /\ fs.in[2].sync = 1
    /\ fs.in[2].after = "EXT_INFINITY"
    /\ fs.in[1].time_base = Q(1, 25) /\ fs.in[2].time_base = Q(1, 90)

C10_OutputDims ==
    phase = "configured" =>
        /\ outlink.dims_src = "inputs"
        /\ is_horizontal = 1 =>
             outlink.w = SumW(inlinks, nb_inputs) /\ outlink.h = inlinks[1].h
        /\ is_horizontal = 0 =>
             outlink.w = inlinks[1].w /\ outlink.h = SumH(inlinks, nb_inputs)
        /\ outlink.frame_rate = inlinks[1].frame_rate
        /\ outlink.time_base.num = inlinks[1].frame_rate.den
        /\ outlink.time_base.den = inlinks[1].frame_rate.num

====
